---- MODULE Spec2Model ----
(***************************************************************************)
(* Veterans benchmarks metrics engine (data_processing.py, main.py).       *)
(*                                                                         *)
(* Dates are whole days counted from 2026-01-01 (day 0).  A missing date   *)
(* (pandas NaT) is NaT; a missing text cell (pandas NaN / None) is NA.     *)
(* A DataFrame is a sequence of rows; a row of a derived frame keeps the   *)
(* index label of the frame it was taken from in its field idx.            *)
(*                                                                         *)
(* The repository holds two applications: main.py with data_processing.py, *)
(* whose process_data works on the caller's frame in place and which has   *)
(* no chronic metrics, and "New folder", whose process_data works on a     *)
(* copy and whose main also calls calculate_chronic_metrics.               *)
(*                                                                         *)
(* Project Start Date is taken to be a parsed date in every row: rows      *)
(* whose start date does not parse are outside the modelled inputs.        *)
(***************************************************************************)
EXTENDS Integers, Sequences, FiniteSets, TLC

VARIABLES
    original_df,              \* st.session_state.original_df
    df_filtered,              \* st.session_state.df_filtered
    processed,                \* what process_data returned
    client_episodes,          \* per client, the list merge_enrollments returned
    newly_identified,         \* what calculate_newly_identified returned, and
                              \* the GPD transitional housing subset of it
    chronic_metrics,          \* what calculate_chronic_metrics returned
    chronic_flag,             \* its local chronic_flag, one boolean per row
    app,                      \* which of the two applications is running
    table,                    \* the frame handed to deduplicate
    display_df,               \* the frame deduplicate returned
    previous,                 \* the frame and the results of the run before
    selected_coc,             \* the CoC selection of the last submitted form
    enrollments,              \* group_sorted: one client's rows, by start date
    episodes,                 \* the list merge_enrollments returned for it
    date_of_identification,   \* the value held after the walk over episodes
    pc                        \* position in the run

vars == <<original_df, df_filtered, processed, client_episodes,
          newly_identified, chronic_metrics, chronic_flag, app, table,
          display_df, previous, selected_coc, enrollments, episodes,
          date_of_identification, pc>>

\* pandas NaT: an absent date
NaT == -1

\* pd.Timestamp("2099-12-31"), in days from 2026-01-01
FUTURE_DATE == 27027

SetMax(S) == CHOOSE m \in S : \A x \in S : x <= m

Range(s) == {s[i] : i \in DOMAIN s}

(***************************************************************************)
(* merge_enrollments                                                       *)
(***************************************************************************)

\* "if pd.isna(end): end = 2099-12-31"
ExitOrFuture(exit) == IF exit = NaT THEN FUTURE_DATE ELSE exit

TouchesStrictly(start_i, current_end) == start_i <= current_end

\* "Overlap or touch => extend": start_i <= current_end + 1 day
Touches(start_i, current_end) == start_i <= current_end + 1

\* "if end_i > current_end: current_end = end_i"
ExtendEnd(current_end, end_i) == IF end_i > current_end THEN end_i ELSE current_end

Episode(s, e, rows) == [episode_start |-> s, episode_end |-> e, row_ids |-> rows]

RECURSIVE MergeFrom(_, _, _, _, _, _)
\* the loop "for i in range(1, len(enrollments))" and the final append
MergeFrom(enr, i, current_start, current_end, current_rows, eps) ==
    IF i > Len(enr)
    THEN Append(eps, Episode(current_start, current_end, current_rows))
    ELSE LET start_i == enr[i].start
             end_i   == ExitOrFuture(enr[i].exit)
         IN  IF Touches(start_i, current_end)
             THEN MergeFrom(enr, i + 1, current_start,
                            ExtendEnd(current_end, end_i),
                            Append(current_rows, enr[i].idx), eps)
             ELSE MergeFrom(enr, i + 1, start_i, end_i, <<enr[i].idx>>,
                            Append(eps, Episode(current_start, current_end,
                                                current_rows)))

merge_enrollments(enr) ==
    IF enr = <<>>
    THEN <<>>
    ELSE MergeFrom(enr, 2, enr[1].start, ExitOrFuture(enr[1].exit),
                   <<enr[1].idx>>, <<>>)

(***************************************************************************)
(* Date of Identification: the walk over the episodes                     *)
(***************************************************************************)

GapResetsAfter(gap_days) == gap_days > 90

EveryGapResets(gap_days) == TRUE

\* "if gap_days >= 90: date_of_identification = ep_start"
GapResets(gap_days) == gap_days >= 90

RECURSIVE WalkFrom(_, _, _, _)
\* "for i, ep in enumerate(episodes)"; previous_end is None before episode 0
WalkFrom(eps, i, doi, previous_end) ==
    IF i > Len(eps)
    THEN doi
    ELSE LET ep_start == eps[i].episode_start
             ep_end   == eps[i].episode_end
             gap_days == IF previous_end # NaT
                         THEN ep_start - previous_end
                         ELSE 9999
         IN  IF i = 1
             THEN WalkFrom(eps, i + 1, ep_start, ep_end)
             ELSE WalkFrom(eps, i + 1,
                           IF GapResets(gap_days) THEN ep_start ELSE doi,
                           ep_end)

DateOfIdentification(eps) == WalkFrom(eps, 1, NaT, NaT)

(***************************************************************************)
(* Cell values.  In project types and funding sources " - " stands for the *)
(* source's " – " (en dash).                                               *)
(***************************************************************************)

\* pandas NaN / None in a text column
NA == "<NA>"

\* pd.to_datetime("today").normalize(), in days from 2026-01-01
Today == 305

reporting_period_end == Today

reporting_period_start == reporting_period_end - 89

allowed_project_types ==
    { "Transitional Housing",
      "Coordinated Entry",
      "PH - Rapid Re-Housing",
      "PH - Permanent Supportive Housing (disability required for entry)",
      "Emergency Shelter - Night-by-Night",
      "Emergency Shelter - Entry Exit",
      "Other",
      "Street Outreach",
      "PH - Housing Only",
      "PH - Housing with Services (no disability required for entry)",
      "Safe Haven" }

excluded_funding_sources ==
    { "VA: Grant Per Diem - Low Demand",
      "VA: Grant Per Diem - Hospital to Housing",
      "VA: Grant Per Diem - Clinical Treatment",
      "VA: Grant Per Diem - Service Intensive Transitional Housing" }

\* the project types of the modelled inputs that begin with "PH - "
PHPrefixed ==
    { "PH - Rapid Re-Housing",
      "PH - Permanent Supportive Housing (disability required for entry)",
      "PH - Housing Only",
      "PH - Housing with Services (no disability required for entry)",
      "PH - Other Unlisted" }

\* str.startswith("PH - ")
StartsWithPH(s) == s \in PHPrefixed

\* str.strip(), on the text values of the modelled inputs
StrStrip(s) ==
    CASE s = " Other " -> "Other"
      [] s = " Yes " -> "Yes"
      [] s = "Transitional Housing " -> "Transitional Housing"
      [] OTHER -> s

\* astype(str): a missing cell becomes the text "nan"
AsStr(s) == IF s = NA THEN "nan" ELSE s

\* str.lower(), on the text values of the modelled inputs
StrLower(s) ==
    CASE s = "Yes" -> "yes"
      [] s = "YES" -> "yes"
      [] s = "No" -> "no"
      [] OTHER -> s

(***************************************************************************)
(* DataFrame helpers                                                       *)
(***************************************************************************)

\* Series.nunique() of the "Client ID" column
\* df.columns; the rows of a frame all have the columns of the frame
Columns(df) == IF df = <<>> THEN {} ELSE DOMAIN df[1]

RowCount(frame) == Len(frame)

\* frame["Client ID"].nunique()
NUnique(frame) == Cardinality({r.cid : r \in Range(frame)})

\* the index labels of a frame
Labels(frame) == {r.idx : r \in Range(frame)}

\* drop_duplicates(subset=["Client ID", "Enrollment ID"], keep="first")
DropDuplicateEnrollments(frame) ==
    SelectSeq(frame, LAMBDA r :
        \A q \in Range(frame) :
            (q.cid = r.cid /\ q.eid = r.eid) => q.idx >= r.idx)

KeepEveryRow(frame) == frame

\* drop_duplicates(subset=["Client ID"], keep="first")
DropDuplicateClients(frame) ==
    SelectSeq(frame, LAMBDA r :
        \A q \in Range(frame) : (q.cid = r.cid) => q.idx >= r.idx)

\* the order of sort_values(by=["Client ID", "Project Start Date"])
ClientStartLE(a, b) == a.cid < b.cid \/ (a.cid = b.cid /\ a.start <= b.start)

\* r placed after the rows that do not sort after it
InsertRow(sorted, r) ==
    LET k == Cardinality({i \in 1 .. Len(sorted) : ClientStartLE(sorted[i], r)})
    IN  SubSeq(sorted, 1, k) \o <<r>> \o SubSeq(sorted, k + 1, Len(sorted))

RECURSIVE SortByClientStart(_)
\* sort_values(by=["Client ID", "Project Start Date"]); equal keys keep
\* their order
SortByClientStart(frame) ==
    IF frame = <<>>
    THEN <<>>
    ELSE InsertRow(SortByClientStart(SubSeq(frame, 1, Len(frame) - 1)),
                   frame[Len(frame)])

\* reset_index(drop=True)
ResetIndex(frame) == [i \in 1 .. Len(frame) |-> [frame[i] EXCEPT !.idx = i]]

(***************************************************************************)
(* process_data: the active veteran subset                                 *)
(***************************************************************************)

\* a trim that drops the first and the last character, blank or not
ChopEnds(s) ==
    CASE s = " Other " -> "Other"
      [] s = "Other" -> "the"
      [] s = "Transitional Housing " -> "ransitional Housing"
      [] s = "Transitional Housing" -> "ransitional Housin"
      [] OTHER -> "chopped"

ChopProjectType(frame) ==
    [i \in 1 .. Len(frame) |-> [frame[i] EXCEPT !.ptype = ChopEnds(@)]]

\* df["Project Type Code"] = df["Project Type Code"].str.strip()
StripProjectType(frame) ==
    [i \in 1 .. Len(frame) |-> [frame[i] EXCEPT !.ptype = StrStrip(@)]]

\* (exit is null | exit >= reporting_period_start) & start <= reporting_period_end
ActiveInWindow(r) ==
    /\ (r.exit = NaT \/ r.exit >= reporting_period_start)
    /\ r.start <= reporting_period_end

\* "Is Last Enrollment in System (Yes / No)": astype(str).str.strip().str.lower()
CleanLastEnrollment(frame) ==
    [i \in 1 .. Len(frame) |->
        [frame[i] EXCEPT !.last = StrLower(StrStrip(AsStr(@)))]]

\* "Veteran Status".astype(str).str.lower() == "yes"
IsVeteran(r) == StrLower(AsStr(r.vet)) = "yes"

\* served_clients_filtered: active, allowed project type, veteran
ServedClientsFiltered(frame) ==
    SelectSeq(CleanLastEnrollment(
                  SelectSeq(frame, LAMBDA r :
                      ActiveInWindow(r) /\ r.ptype \in allowed_project_types)),
              IsVeteran)

(***************************************************************************)
(* process_data: served and PH placement                                   *)
(***************************************************************************)

MoveInAfterEnd(r) == r.movein = NaT \/ r.movein > reporting_period_end

\* move-in missing, or on/after reporting_period_end
NoMoveInByEnd(r) == r.movein = NaT \/ r.movein >= reporting_period_end

non_ph_projects(r) == ~StartsWithPH(r.ptype)

ph_project_movein_condition(r) == StartsWithPH(r.ptype) /\ NoMoveInByEnd(r)

GuardOff(r) == TRUE

\* project type is not "Other", or Name is "Veterans By Name List"
other_or_veteran_list(r) ==
    r.ptype # "Other" \/ r.name = "Veterans By Name List"

veteran_served_filter(r) ==
    (non_ph_projects(r) \/ ph_project_movein_condition(r))
        /\ other_or_veteran_list(r)

ph_movein_condition(r) ==
    /\ StartsWithPH(r.ptype)
    /\ r.movein # NaT
    /\ r.movein >= reporting_period_start
    /\ r.movein <= reporting_period_end

exit_to_ph_condition(r) ==
    /\ r.last = "yes"
    /\ r.dest = "Permanent Housing Situations"
    /\ r.exit # NaT
    /\ r.exit >= reporting_period_start
    /\ r.exit <= reporting_period_end

valid_project_condition(r) ==
    r.ptype # "Other" \/ r.name = "Veterans By Name List"

ExcludesEveryTH(r) == r.ptype # "Transitional Housing"

\* ~(project type is "Transitional Housing" & funding source is a GPD one)
transitional_housing_exclusion(r) ==
    ~(r.ptype = "Transitional Housing" /\ r.funding \in excluded_funding_sources)

measure1_filter(r) ==
    (ph_movein_condition(r) \/ exit_to_ph_condition(r))
        /\ valid_project_condition(r)

Measure2Unguarded(r) ==
    (ph_movein_condition(r) \/ exit_to_ph_condition(r))
        /\ transitional_housing_exclusion(r)

measure2_filter(r) == measure1_filter(r) /\ transitional_housing_exclusion(r)

(***************************************************************************)
(* process_data: days from identification to housing                       *)
(***************************************************************************)

\* the day count of a missing difference (pandas NaN)
NaN == -999999

InWindow(d) ==
    d # NaT /\ d >= reporting_period_start /\ d <= reporting_period_end

FilteredAllowedOnly(frame, measure2) ==
    SelectSeq(frame, LAMBDA r :
        /\ r.cid \in {q.cid : q \in Range(measure2)}
        /\ r.ptype \in allowed_project_types)

\* df[df["Client ID"].isin(filtered_client_ids)]
FilteredOriginal(frame, measure2) ==
    SelectSeq(frame, LAMBDA r : r.cid \in {q.cid : q \in Range(measure2)})

\* the exits that count towards "Last Exit"
ExitsWithinReporting(frame, cid) ==
    {r.exit : r \in {q \in Range(frame) :
        q.cid = cid /\ InWindow(q.exit) /\ q.ptype \in allowed_project_types}}

\* the move-ins that count towards "Last Move-in"
MoveInsWithinReporting(frame, cid) ==
    {r.movein : r \in {q \in Range(frame) :
        q.cid = cid /\ InWindow(q.movein) /\ q.ptype \in allowed_project_types}}

\* groupby("Client ID")[col].max(), then .map: NaT for a client without one
LastOf(dates) == IF dates = {} THEN NaT ELSE SetMax(dates)

EarlierOf(last_exit, last_movein) ==
    IF last_movein = NaT \/ (last_exit # NaT /\ last_movein > last_exit)
    THEN last_exit
    ELSE last_movein

\* np.where(move-in is null | move-in < exit, exit, move-in)
LastHousingEvent(last_exit, last_movein) ==
    IF last_movein = NaT \/ (last_exit # NaT /\ last_movein < last_exit)
    THEN last_exit
    ELSE last_movein

\* (Last Housing Event - Date of Identification).dt.days
DaysBetween(lhe, doi) == IF lhe = NaT \/ doi = NaT THEN NaN ELSE lhe - doi

\* group.sort_values("Project Start Date") of one client's rows of df_doi
GroupSorted(sorted_frame, cid) ==
    SortByClientStart(SelectSeq(sorted_frame, LAMBDA r : r.cid = cid))

\* the episodes of every client of the frame
EpisodesByClient(sorted_frame) ==
    [cid \in {r.cid : r \in Range(sorted_frame)} |->
        merge_enrollments(GroupSorted(sorted_frame, cid))]

\* filtered_original_df deduplicated, sorted and re-indexed
SortedOriginal(frame, measure2) ==
    ResetIndex(SortByClientStart(
        DropDuplicateEnrollments(FilteredOriginal(frame, measure2))))

\* df_doi: one row per enrollment of the PH-placed clients, with the
\* derived columns
DfDoi(frame, measure2) ==
    LET original == FilteredOriginal(frame, measure2)
        sorted   == SortedOriginal(frame, measure2)
        eps      == EpisodesByClient(sorted)
    IN  [i \in 1 .. Len(sorted) |->
            LET r           == sorted[i]
                last_exit   == LastOf(ExitsWithinReporting(original, r.cid))
                last_movein == LastOf(MoveInsWithinReporting(original, r.cid))
                doi         == DateOfIdentification(eps[r.cid])
                lhe         == LastHousingEvent(last_exit, last_movein)
            IN  [last_exit |-> last_exit, last_movein |-> last_movein,
                 doi |-> doi, lhe |-> lhe, days |-> DaysBetween(lhe, doi)] @@ r]

\* summary_df: the derived columns, one row per client
SummaryDf(df_doi_frame) ==
    LET first == DropDuplicateClients(df_doi_frame)
    IN  [i \in 1 .. Len(first) |->
            [idx |-> first[i].idx, cid |-> first[i].cid,
             last_exit |-> first[i].last_exit,
             last_movein |-> first[i].last_movein,
             doi |-> first[i].doi, lhe |-> first[i].lhe,
             days |-> first[i].days]]

\* the column "Days Since Identification to Housing" of a frame
DaysColumn(frame) == [i \in 1 .. Len(frame) |-> frame[i].days]

\* the cells of a column that hold a number (skipna)
Valid(column) == SelectSeq(column, LAMBDA d : d # NaN)

\* the float nan a reduction over no value returns
NoData == [nan |-> TRUE]

\* the quotient num / den, kept exact
Ratio(num, den) == [num |-> num, den |-> den]

RECURSIVE SumSeq(_)
SumSeq(s) == IF s = <<>> THEN 0 ELSE Head(s) + SumSeq(Tail(s))

InsertValue(sorted, d) ==
    LET k == Cardinality({i \in DOMAIN sorted : sorted[i] <= d})
    IN  SubSeq(sorted, 1, k) \o <<d>> \o SubSeq(sorted, k + 1, Len(sorted))

RECURSIVE SortValues(_)
SortValues(s) ==
    IF s = <<>> THEN <<>> ELSE InsertValue(SortValues(Tail(s)), Head(s))

MeanZeroWhenEmpty(column) ==
    LET v == Valid(column)
    IN  IF v = <<>> THEN Ratio(0, 1) ELSE Ratio(SumSeq(v), Len(v))

\* Series.mean()
Mean(column) ==
    LET v == Valid(column)
    IN  IF v = <<>> THEN NoData ELSE Ratio(SumSeq(v), Len(v))

\* Series.median(): the middle value, or the mean of the two middle values
Median(column) ==
    LET v == SortValues(Valid(column))
        n == Len(v)
    IN  IF n = 0 THEN NoData
        ELSE IF n % 2 = 1 THEN Ratio(v[(n + 1) \div 2], 1)
        ELSE Ratio(v[n \div 2] + v[n \div 2 + 1], 2)

(***************************************************************************)
(* calculate_newly_identified                                              *)
(***************************************************************************)

SetMin(S) == CHOOSE m \in S : \A x \in S : m <= x

\* main: the rows that start inside the window on an allowed project type
ReportingPeriodRows(frame) ==
    SelectSeq(frame, LAMBDA r :
        /\ r.start >= reporting_period_start
        /\ r.start <= reporting_period_end
        /\ r.ptype \in allowed_project_types)

\* rp_df.groupby("Client ID")["Project Start Date"].min()
EarliestRpStart(rp_df, cid) ==
    SetMin({r.start : r \in {q \in Range(rp_df) : q.cid = cid}})

\* the client's rows of an allowed project type that start before the date
PriorAllowed(full_df, cid, earliest_rp_start) ==
    {r \in Range(full_df) :
        /\ r.ptype \in allowed_project_types
        /\ r.cid = cid
        /\ r.start < earliest_rp_start}

\* the client's rows of any project type that start before the date
PriorAny(full_df, cid, earliest_rp_start) ==
    {r \in Range(full_df) : r.cid = cid /\ r.start < earliest_rp_start}

LapseAfter90(eend, earliest_rp_start) == eend > earliest_rp_start - 90

\* eend >= window_start, where window_start = earliest_rp_start - 90 days
ReachesWindow(eend, earliest_rp_start) == eend >= earliest_rp_start - 90

overlaps_90_days(row, earliest_rp_start) ==
    /\ row.start < earliest_rp_start
    /\ ReachesWindow(ExitOrFuture(row.exit), earliest_rp_start)

\* the decision taken for one client in the loop
IsNewlyIdentified(rp_df, full_df, cid) ==
    LET earliest_rp_start == EarliestRpStart(rp_df, cid)
    IN  \/ PriorAllowed(full_df, cid, earliest_rp_start) = {}
        \/ ~ \E row \in PriorAny(full_df, cid, earliest_rp_start) :
                overlaps_90_days(row, earliest_rp_start)

newly_identified_clients(rp_df, full_df) ==
    {cid \in {r.cid : r \in Range(rp_df)} : IsNewlyIdentified(rp_df, full_df, cid)}

ReadsHistoryWhenEmpty(rp_df, full_df) ==
    LET newly == newly_identified_clients(rp_df, full_df)
    IN  [count |-> IF rp_df = <<>> THEN NUnique(full_df) ELSE Cardinality(newly),
         df |-> SelectSeq(rp_df, LAMBDA r : r.cid \in newly),
         columns |-> Columns(rp_df)]

\* (newly_identified_count, newly_identified_df); columns are the columns of
\* the returned frame: pd.DataFrame() has none, the rows selected from rp_df
\* have those of rp_df
calculate_newly_identified(rp_df, full_df) ==
    IF rp_df = <<>>
    THEN [count |-> 0, df |-> <<>>, columns |-> {}]
    ELSE LET newly == newly_identified_clients(rp_df, full_df)
         IN  [count |-> Cardinality(newly),
              df |-> SelectSeq(rp_df, LAMBDA r : r.cid \in newly),
              columns |-> Columns(rp_df)]

(***************************************************************************)
(* is_chronically_homeless and calculate_chronic_metrics                   *)
(***************************************************************************)

\* primary unless it is null or '', else backup
FallbackOnNullOnly(primary, backup) == IF primary = NA THEN backup ELSE primary

\* result.loc[result.isna() | (result == '')] = backup_col
fallback_column(primary, backup) ==
    IF primary = NA \/ primary = "" THEN backup ELSE primary

\* fallback_column on the episode-start dates, then pd.to_datetime
FallbackDate(primary, backup) == IF primary = NaT THEN backup ELSE primary

HomelessSituations ==
    { "Place not meant for habitation (e.g., a vehicle, an abandoned building, bus/train/subway station/airport or anywhere outside)",
      "Emergency shelter, including hotel or motel paid for with emergency shelter voucher, Host Home shelter",
      "Safe Haven",
      "Transitional housing for homeless persons (including homeless youth)" }

Duration365Inclusive(r) ==
    LET exit_or_end == IF r.exit = NaT THEN reporting_period_end ELSE r.exit
        chronic_7   == FallbackDate(r.approx1, r.approx)
    IN  chronic_7 # NaT /\ exit_or_end - chronic_7 >= 365

\* (exit_or_end - chronic_7).dt.days > 365
Duration365(r) ==
    LET exit_or_end == IF r.exit = NaT THEN reporting_period_end ELSE r.exit
        chronic_7   == FallbackDate(r.approx1, r.approx)
    IN  chronic_7 # NaT /\ exit_or_end - chronic_7 > 365

chronic_logic(r) ==
    /\ fallback_column(r.prior1, r.prior) \in HomelessSituations
    /\ \/ fallback_column(r.los1, r.los) = "One year or longer"
       \/ Duration365(r)
       \/ /\ fallback_column(r.times1, r.times) = "Four or more times"
          /\ fallback_column(r.months1, r.months) = "More than 12 Months"

is_chronically_homeless(r) == r.pit = "Yes" \/ chronic_logic(r)

is_ph(r) == StartsWithPH(r.ptype)

no_movein(r) == r.movein = NaT \/ r.movein >= reporting_period_end

in_non_ph_or_unhoused(r) == ~is_ph(r) \/ (is_ph(r) /\ no_movein(r))

allowed_projects(r) == r.ptype \in allowed_project_types

active_reporting(r) ==
    /\ (r.exit = NaT \/ r.exit >= reporting_period_start)
    /\ r.start <= reporting_period_end

valid_projects(r) == r.ptype # "Other" \/ r.name = "Veterans By Name List"

a1_filter(r) ==
    /\ in_non_ph_or_unhoused(r)
    /\ allowed_projects(r)
    /\ active_reporting(r)
    /\ valid_projects(r)
    /\ is_chronically_homeless(r)

offered_recently_pending(r) ==
    /\ r.offer # NA
    /\ r.offer # "Permanent Housing Not Offered Yet"
    /\ r.offer_date # NaT
    /\ r.offer_date >= reporting_period_end - 13
    /\ r.offer_status = "Decision Pending"

a2_filter(r) ==
    /\ allowed_projects(r)
    /\ active_reporting(r)
    /\ valid_projects(r)
    /\ in_non_ph_or_unhoused(r)
    /\ is_chronically_homeless(r)
    /\ offered_recently_pending(r)

a3_filter(r) ==
    /\ r.ptype = "Transitional Housing"
    /\ r.funding \in excluded_funding_sources
    /\ active_reporting(r)
    /\ is_chronically_homeless(r)

a4_filter(r) ==
    /\ is_ph(r)
    /\ reporting_period_end - r.start < 90
    /\ no_movein(r)
    /\ is_chronically_homeless(r)
    /\ active_reporting(r)

\* {"A1": (count, a1_df), ..., "A4": (count, a4_df)}
calculate_chronic_metrics(frame) ==
    LET a1_df == SelectSeq(frame, a1_filter)
        a2_df == SelectSeq(frame, a2_filter)
        a3_df == SelectSeq(frame, a3_filter)
        a4_df == SelectSeq(frame, a4_filter)
    IN  [A1 |-> [count |-> NUnique(a1_df), df |-> a1_df],
         A2 |-> [count |-> NUnique(a2_df), df |-> a2_df],
         A3 |-> [count |-> NUnique(a3_df), df |-> a3_df],
         A4 |-> [count |-> NUnique(a4_df), df |-> a4_df]]

(***************************************************************************)
(* process_data as a whole, and the report run of main                     *)
(***************************************************************************)

\* the frames and counts process_data returns, for the frame as stripped
process_data(df) ==
    LET served_clients_filtered == ServedClientsFiltered(df)
        veterans_served_df   == SelectSeq(served_clients_filtered, veteran_served_filter)
        measure1_df          == SelectSeq(served_clients_filtered, measure1_filter)
        filtered_veterans_df == SelectSeq(served_clients_filtered, measure2_filter)
        df_doi               == DfDoi(df, filtered_veterans_df)
    IN  [veterans_served_df |-> veterans_served_df,
         measure1_df |-> measure1_df,
         filtered_veterans_df |-> filtered_veterans_df,
         summary_df |-> SummaryDf(df_doi),
         df_doi |-> df_doi,
         total_veterans_served |-> NUnique(veterans_served_df),
         veterans_ph_placement_count |-> NUnique(measure1_df),
         filtered_veterans_count |-> NUnique(filtered_veterans_df),
         avg_days |-> Mean(DaysColumn(SummaryDf(df_doi))),
         med_days |-> Median(DaysColumn(SummaryDf(df_doi)))]

NoFrames ==
    [veterans_served_df |-> <<>>, measure1_df |-> <<>>,
     filtered_veterans_df |-> <<>>, summary_df |-> <<>>, df_doi |-> <<>>,
     total_veterans_served |-> 0, veterans_ph_placement_count |-> 0,
     filtered_veterans_count |-> 0, avg_days |-> NoData, med_days |-> NoData]

\* the GPD transitional housing subset, not computed yet
NoGpd == [th_count |-> 0, th_df |-> <<>>]

NoNewly == [count |-> 0, df |-> <<>>, columns |-> {}] @@ NoGpd

NoMetrics ==
    [A1 |-> [count |-> 0, df |-> <<>>], A2 |-> [count |-> 0, df |-> <<>>],
     A3 |-> [count |-> 0, df |-> <<>>], A4 |-> [count |-> 0, df |-> <<>>]]

\* no run has completed yet in this session
NoRun == [ran |-> FALSE]

\* both select boxes of the CoC filter form at their first option
NoSelection == [program_coc |-> "None", local_coc |-> "None"]

\* a row with every optional cell empty
BlankRow ==
    [idx |-> 0, cid |-> 1, eid |-> 0, ptype |-> "Street Outreach",
     start |-> Today - 30, exit |-> NaT, movein |-> NaT, vet |-> "Yes",
     name |-> NA, funding |-> NA, dest |-> NA, last |-> NA, pit |-> NA,
     prior1 |-> NA, prior |-> NA, los1 |-> NA, los |-> NA,
     times1 |-> NA, times |-> NA, months1 |-> NA, months |-> NA,
     approx1 |-> NaT, approx |-> NaT,
     offer |-> NA, offer_date |-> NaT, offer_status |-> NA,
     program_coc |-> NA, local_coc |-> NA]

Row(cells) == cells @@ BlankRow

\* pd.read_csv: rows labelled by position; one Enrollment ID per row
Loaded(rows) == [i \in 1 .. Len(rows) |-> [rows[i] EXCEPT !.idx = i, !.eid = i]]

\* the session after the upload: df_filtered is original_df itself
RootApp == "main.py"

RefactoredApp == "New folder/main.py"

Uploaded(frame) ==
    /\ original_df = frame
    /\ df_filtered = frame
    /\ processed = NoFrames
    /\ client_episodes = <<>>
    /\ newly_identified = NoNewly
    /\ chronic_metrics = NoMetrics
    /\ chronic_flag = <<>>
    /\ table = <<>>
    /\ display_df = <<>>
    /\ previous = NoRun
    /\ selected_coc = NoSelection
    /\ enrollments = <<>>
    /\ episodes = <<>>
    /\ date_of_identification = NaT
    /\ pc = "loaded"

\* the columns of BlankRow that the frame lacks
MissingColumns(frame) == DOMAIN BlankRow \ Columns(frame)

\* df.get(column, default) for the optional columns: a column the frame
\* lacks reads as a column of nulls (the defaults "no", None and
\* pd.Series([None] * len(df)) compare like a null cell)
GetAll(frame) == [i \in 1 .. Len(frame) |-> frame[i] @@ BlankRow]

\* a frame selected from the caller's frame has the caller's columns
WithoutColumns(frame, missing) ==
    IF missing = {}
    THEN frame
    ELSE [i \in 1 .. Len(frame) |->
             [c \in DOMAIN frame[i] \ missing |-> frame[i][c]]]

\* .get("Name", "").eq(...): without a Name column the default is the str
\* "", which has no method eq
NameRaises(frame) == "name" \in MissingColumns(frame)

\* newly_identified_df["Project Type Code"] and ["Funding Source"] in the GPD
\* subset: a KeyError when the frame has no such column
GpdSubsetRaises(newly) == ~ ({"ptype", "funding"} \subseteq newly.columns)

\* fallback_column(*[col for col in chronic_7_cols if col is not None])
\* is called with fewer than its two arguments
EpisodeStartRaises(frame) == {"approx1", "approx"} \cap MissingColumns(frame) # {}

\* process_data(df_filtered) computes the frames and counts from the frame
\* with its project types stripped.  data_processing.py strips the caller's
\* frame itself, which is also st.session_state.original_df while no CoC
\* filter has been applied; "New folder" strips a copy.  The call raises
\* when the frame has no Name column.
ProcessData ==
    /\ pc = "loaded"
    /\ LET stripped == StripProjectType(df_filtered)
           missing  == MissingColumns(df_filtered)
           df       == GetAll(stripped)
           returned == process_data(df)
       IN  /\ df_filtered' = IF app = RootApp THEN stripped ELSE df_filtered
           /\ original_df' = IF app = RootApp
                                THEN StripProjectType(original_df)
                                ELSE original_df
           /\ IF NameRaises(df_filtered)
              THEN /\ pc' = "error"
                   /\ UNCHANGED <<processed, client_episodes>>
              ELSE /\ pc' = "processed"
                   /\ processed' =
                          [returned EXCEPT
                              !.veterans_served_df = WithoutColumns(@, missing),
                              !.measure1_df = WithoutColumns(@, missing),
                              !.filtered_veterans_df = WithoutColumns(@, missing),
                              !.df_doi = WithoutColumns(@, missing)]
                   /\ client_episodes' =
                          EpisodesByClient(SortedOriginal(df, SelectSeq(
                              ServedClientsFiltered(df), measure2_filter)))
    /\ UNCHANGED <<selected_coc, table, display_df, previous,
                   newly_identified, chronic_metrics, chronic_flag, app,
                   enrollments, episodes, date_of_identification>>

\* newly identified records entering GPD-funded Transitional Housing
prepare_gpd_analysis(newly_identified_df) ==
    LET newly_identified_th_df ==
            SelectSeq(newly_identified_df, LAMBDA r :
                /\ r.ptype = "Transitional Housing"
                /\ r.funding \in excluded_funding_sources)
    IN  [th_df |-> newly_identified_th_df,
         th_count |-> NUnique(newly_identified_th_df)]

\* rp_df = the in-window rows of df_filtered; calculate_newly_identified(
\* rp_df, original_df, ...).  main.py then takes the GPD transitional
\* housing subset of the returned frame; the main of "New folder" takes it
\* after the chronic metrics.
CalculateNewlyIdentified ==
    /\ pc = "processed"
    /\ LET newly == calculate_newly_identified(
                        ReportingPeriodRows(df_filtered), original_df)
       IN  IF app = RefactoredApp
           THEN /\ pc' = "newly"
                /\ newly_identified' = newly @@ NoGpd
           ELSE IF GpdSubsetRaises(newly)
           THEN /\ pc' = "error"
                /\ newly_identified' = newly @@ NoGpd
           ELSE /\ pc' = "newly"
                /\ newly_identified' = newly @@ prepare_gpd_analysis(newly.df)
    /\ UNCHANGED <<selected_coc, table, display_df, previous,
                   original_df, df_filtered, processed, client_episodes,
                   chronic_metrics, chronic_flag, app, enrollments, episodes,
                   date_of_identification>>

\* calculate_chronic_metrics(df_filtered, ...), called by the main of
\* "New folder" only; is_chronically_homeless raises when the frame lacks
\* one of the two episode-start columns
CalculateChronicMetrics ==
    /\ pc = "newly"
    /\ app = RefactoredApp
    /\ LET df_copy  == GetAll(df_filtered)
           missing  == MissingColumns(df_filtered)
           returned == calculate_chronic_metrics(df_copy)
       IN  IF EpisodeStartRaises(df_filtered)
           THEN /\ pc' = "error"
                /\ UNCHANGED <<chronic_flag, chronic_metrics>>
           ELSE /\ pc' = "chronic"
                /\ chronic_flag' = [i \in 1 .. Len(df_copy) |->
                                        is_chronically_homeless(df_copy[i])]
                /\ chronic_metrics' =
                       [m \in DOMAIN returned |->
                           [returned[m] EXCEPT
                               !.df = WithoutColumns(@, missing)]]
    /\ UNCHANGED <<selected_coc, table, display_df, previous,
                   original_df, df_filtered, processed, client_episodes,
                   newly_identified, app, enrollments, episodes,
                   date_of_identification>>

\* prepare_gpd_analysis(newly_identified_df, gpd_sources) in the main of
\* "New folder"
PrepareGpdAnalysis ==
    /\ pc = "chronic"
    /\ IF GpdSubsetRaises(newly_identified)
       THEN /\ pc' = "error"
            /\ UNCHANGED newly_identified
       ELSE /\ pc' = "done"
            /\ newly_identified' =
                   [count |-> newly_identified.count,
                    df |-> newly_identified.df,
                    columns |-> newly_identified.columns]
                       @@ prepare_gpd_analysis(newly_identified.df)
    /\ UNCHANGED <<selected_coc, table, display_df, previous,
                   original_df, df_filtered, processed, client_episodes,
                   chronic_metrics, chronic_flag, app, enrollments, episodes,
                   date_of_identification>>

NextRun ==
    \/ ProcessData
    \/ CalculateNewlyIdentified
    \/ CalculateChronicMetrics
    \/ PrepareGpdAnalysis

\* Streamlit runs main again on the frames kept in st.session_state
Rerun ==
    /\ ~previous.ran
    /\ \/ app = RootApp /\ pc = "newly"
       \/ app = RefactoredApp /\ pc = "done"
    /\ previous' = [ran |-> TRUE, processed |-> processed,
                    newly_identified |-> newly_identified,
                    chronic_metrics |-> chronic_metrics]
    /\ processed' = NoFrames
    /\ client_episodes' = <<>>
    /\ newly_identified' = NoNewly
    /\ chronic_metrics' = NoMetrics
    /\ chronic_flag' = <<>>
    /\ pc' = "loaded"
    /\ UNCHANGED <<selected_coc, table, display_df, original_df, df_filtered,
                   app,
                   enrollments, episodes, date_of_identification>>

NextRerun == NextRun \/ Rerun

(***************************************************************************)
(* Report runs on one-row frames over every combination of the cells the   *)
(* filters read, and on short frames of two clients                        *)
(***************************************************************************)

MaxRows == 2

FilterRows ==
    {Row(c) : c \in
        [ptype : {"Transitional Housing", "PH - Rapid Re-Housing", "Other",
                  " Other ", "Homelessness Prevention"},
         start : {Today - 90, Today + 1},
         exit : {NaT, Today - 90, Today - 89, Today, Today + 1},
         movein : {NaT, Today - 90, Today - 89, Today, Today + 1},
         vet : {"Yes", "No"},
         name : {"Veterans By Name List", NA},
         funding : {"VA: Grant Per Diem - Low Demand", NA},
         dest : {"Permanent Housing Situations", NA},
         last : {"Yes", "No"},
         pit : {"Yes", NA}]}

ClientRows ==
    {Row(c) : c \in
        [cid : {1, 2},
         ptype : {"Street Outreach", "PH - Rapid Re-Housing",
                  "Transitional Housing"},
         movein : {NaT, Today - 89},
         exit : {NaT, Today},
         funding : {"VA: Grant Per Diem - Clinical Treatment"},
         dest : {"Permanent Housing Situations"},
         last : {"Yes"}]}

FilterFrames ==
    {<<r>> : r \in FilterRows}
        \cup UNION {[1 .. n -> ClientRows] : n \in 2 .. MaxRows}

InitFilters ==
    \E rows \in FilterFrames, a \in {RootApp, RefactoredApp} :
        Uploaded(Loaded(rows)) /\ app = a

SpecFilters == InitFilters /\ [][NextRun]_vars

(***************************************************************************)
(* process_data on the enrollment histories of one or two clients          *)
(***************************************************************************)

\* enrollment periods: before the window, into it, inside it, still open
Stints ==
    { [start |-> Today - 200, exit |-> Today - 150, dest |-> NA],
      [start |-> Today - 200, exit |-> Today - 23,
       dest |-> "Permanent Housing Situations"],
      [start |-> Today - 32, exit |-> Today - 23, dest |-> NA],
      [start |-> Today - 22, exit |-> NaT, dest |-> NA],
      [start |-> Today - 22, exit |-> Today - 5,
       dest |-> "Permanent Housing Situations"],
      [start |-> Today - 22, exit |-> Today - 5, dest |-> NA] }

HousingRows ==
    {Row([start |-> st.start, exit |-> st.exit, dest |-> st.dest] @@ c) :
        st \in Stints,
        c \in [ptype : {"Transitional Housing", "PH - Rapid Re-Housing",
                        "Homelessness Prevention"},
               movein : {NaT, Today - 9, Today - 1},
               funding : {"VA: Grant Per Diem - Low Demand"},
               last : {"Yes"}]}

SecondClient(r) == [r EXCEPT !.cid = 2]

HousingFrames ==
    UNION {[1 .. n -> HousingRows] : n \in 1 .. MaxRows}
        \cup {<<a, SecondClient(b)>> : a \in HousingRows, b \in HousingRows}

InitHousing ==
    \E rows \in HousingFrames : Uploaded(Loaded(rows)) /\ app = RootApp

SpecHousing == InitHousing /\ [][ProcessData]_vars

(***************************************************************************)
(* calculate_newly_identified on a client's history                        *)
(***************************************************************************)

\* starts long before the window, on its first day and late in it; exits
\* 91 and 90 days before the first day of the window
NewlyRows ==
    {Row(c) : c \in
        [ptype : {"Street Outreach", "Homelessness Prevention"},
         start : {Today - 300, Today - 89, Today - 10},
         exit : {NaT, Today - 180, Today - 179}]}

NewlyFrames ==
    UNION {[1 .. n -> NewlyRows] : n \in 1 .. MaxRows + 1}
        \cup {<<a, SecondClient(b)>> : a \in NewlyRows, b \in NewlyRows}

InitNewly ==
    \E rows \in NewlyFrames : Uploaded(Loaded(rows)) /\ app = RootApp

NextNewly == ProcessData \/ CalculateNewlyIdentified

SpecNewly == InitNewly /\ [][NextNewly]_vars

(***************************************************************************)
(* The run of "New folder", chronic metrics included                       *)
(***************************************************************************)

\* a PH offer made on the first of the last 14 days, still pending
PendingOffer ==
    [offer |-> "Permanent Housing Offered", offer_date |-> Today - 13,
     offer_status |-> "Decision Pending"]

\* one record: project type, dates, veteran status, chronic flag, funding
EligibilityRows ==
    {Row(c @@ PendingOffer) : c \in
        [ptype : {"Street Outreach", "Transitional Housing",
                  "PH - Rapid Re-Housing", "PH - Other Unlisted",
                  "Homelessness Prevention"},
         start : {Today - 90, Today - 89, Today + 1},
         exit : {NaT, Today - 90, Today - 89},
         movein : {NaT, Today - 1, Today},
         vet : {"Yes", "No"},
         pit : {"Yes", NA},
         funding : {"VA: Grant Per Diem - Low Demand", NA}]}

\* one record: the PH offer columns
OfferRows ==
    {Row(c) : c \in
        [pit : {"Yes", NA},
         offer : {NA, "Permanent Housing Offered",
                  "Permanent Housing Not Offered Yet"},
         offer_date : {NaT, Today - 14, Today - 13, Today, Today + 1},
         offer_status : {NA, "Decision Pending", "Accepted"}]}

\* several records of one or two clients
ChronicClientRows ==
    {Row(c @@ PendingOffer) : c \in
        [cid : {1, 2},
         ptype : {"Street Outreach", "Transitional Housing",
                  "PH - Rapid Re-Housing"},
         movein : {NaT, Today - 5},
         pit : {"Yes", NA},
         funding : {"VA: Grant Per Diem - Low Demand"}]}

ChronicFrames ==
    {<<r>> : r \in EligibilityRows \cup OfferRows}
        \cup UNION {[1 .. n -> ChronicClientRows] : n \in 2 .. MaxRows}

InitChronic ==
    \E rows \in ChronicFrames : Uploaded(Loaded(rows)) /\ app = RefactoredApp

SpecChronic == InitChronic /\ [][NextRun]_vars

(***************************************************************************)
(* is_chronically_homeless on one record                                   *)
(***************************************************************************)

SafeHaven == "Safe Haven"

OneYear == "One year or longer"

FourTimes == "Four or more times"

TwelveMonths == "More than 12 Months"

\* df_copy as calculate_chronic_metrics hands it to is_chronically_homeless
InitChronicFlag ==
    /\ \E c \in [pit : {"Yes", NA},
                 prior1 : {NA, "", SafeHaven,
                           "Rental by client, no ongoing housing subsidy"},
                 prior : {NA, SafeHaven},
                 los1 : {NA, "", OneYear,
                         "One month or more, but less than 90 days"},
                 los : {NA, OneYear},
                 times1 : {NA, FourTimes, "One time"},
                 times : {NA, FourTimes},
                 months1 : {NA, TwelveMonths},
                 months : {NA, TwelveMonths},
                 approx1 : {NaT, Today - 365, Today - 366, Today - 376},
                 approx : {NaT, Today - 366},
                 exit : {NaT, Today - 10}] :
           df_filtered = Loaded(<<Row(c)>>)
    /\ original_df = df_filtered
    /\ processed = NoFrames
    /\ client_episodes = <<>>
    /\ newly_identified = NoNewly
    /\ chronic_metrics = NoMetrics
    /\ chronic_flag = <<>>
    /\ table = <<>>
    /\ display_df = <<>>
    /\ previous = NoRun
    /\ selected_coc = NoSelection
    /\ app = RefactoredApp
    /\ enrollments = <<>>
    /\ episodes = <<>>
    /\ date_of_identification = NaT
    /\ pc = "record"

\* chronic_flag = is_chronically_homeless(df_copy, reporting_period_end)
IsChronicallyHomeless ==
    /\ pc = "record"
    /\ chronic_flag' = [i \in 1 .. Len(df_filtered) |->
                            is_chronically_homeless(df_filtered[i])]
    /\ pc' = "flagged"
    /\ UNCHANGED <<selected_coc, table, display_df, previous,
                   original_df, df_filtered, processed, client_episodes,
                   newly_identified, chronic_metrics, app, enrollments,
                   episodes, date_of_identification>>

SpecChronicFlag == InitChronicFlag /\ [][IsChronicallyHomeless]_vars

(***************************************************************************)
(* deduplicate, applied by main to every frame it shows or offers          *)
(***************************************************************************)

MaxTable == 3

\* subset_cols
SubsetCols(df) == {"cid", "eid"} \cap Columns(df)

\* the cells of a row in the columns of the subset
KeyOf(r, subset_cols) == [c \in subset_cols |-> r[c]]

\* the rows at the given positions, in table order
RECURSIVE KeepPositions(_, _, _)
KeepPositions(df, keep, i) ==
    IF i > Len(df)
    THEN <<>>
    ELSE (IF i \in keep THEN <<df[i]>> ELSE <<>>)
             \o KeepPositions(df, keep, i + 1)

DropDuplicatesKeepLast(df, subset_cols) ==
    KeepPositions(df,
        {i \in 1 .. Len(df) : \A j \in i + 1 .. Len(df) :
            KeyOf(df[j], subset_cols) # KeyOf(df[i], subset_cols)}, 1)

\* df.drop_duplicates(subset=subset_cols, keep="first")
DropDuplicates(df, subset_cols) ==
    KeepPositions(df,
        {i \in 1 .. Len(df) : \A j \in 1 .. i - 1 :
            KeyOf(df[j], subset_cols) # KeyOf(df[i], subset_cols)}, 1)

deduplicate(df) ==
    IF SubsetCols(df) # {} THEN DropDuplicates(df, SubsetCols(df)) ELSE df

\* a frame with Client ID and Enrollment ID, or with Client ID only; val
\* stands for the other columns
InitDedup ==
    /\ \E n \in 1 .. MaxTable :
           \/ table \in [1 .. n -> [cid : {1, 2}, eid : {10, 11}, val : {"a", "b"}]]
           \/ table \in [1 .. n -> [cid : {1, 2}, val : {"a", "b"}]]
    /\ display_df = <<>>
    /\ previous = NoRun
    /\ selected_coc = NoSelection
    /\ original_df = <<>>
    /\ df_filtered = <<>>
    /\ processed = NoFrames
    /\ client_episodes = <<>>
    /\ newly_identified = NoNewly
    /\ chronic_metrics = NoMetrics
    /\ chronic_flag = <<>>
    /\ app \in {RootApp, RefactoredApp}
    /\ enrollments = <<>>
    /\ episodes = <<>>
    /\ date_of_identification = NaT
    /\ pc = "table"

\* display_df = deduplicate(table)
Deduplicate ==
    /\ pc = "table"
    /\ display_df' = deduplicate(table)
    /\ pc' = "deduplicated"
    /\ UNCHANGED <<selected_coc, table, previous,
                   original_df, df_filtered, processed, client_episodes,
                   newly_identified, chronic_metrics, chronic_flag, app,
                   enrollments, episodes, date_of_identification>>

\* deduplicate applied to the frame it returned
DeduplicateAgain ==
    /\ pc = "deduplicated"
    /\ table' = display_df
    /\ display_df' = deduplicate(display_df)
    /\ pc' = "again"
    /\ UNCHANGED <<selected_coc, previous,
                   original_df, df_filtered, processed, client_episodes,
                   newly_identified, chronic_metrics, chronic_flag, app,
                   enrollments, episodes, date_of_identification>>

NextDedup == Deduplicate \/ DeduplicateAgain

SpecDedup == InitDedup /\ [][NextDedup]_vars

(***************************************************************************)
(* Two runs of main on the same uploaded file                              *)
(***************************************************************************)

\* one record: project types with and without blanks around them
RerunRows ==
    {Row(c) : c \in
        [ptype : {" Other ", "Other", "Transitional Housing ",
                  "PH - Rapid Re-Housing", "Street Outreach"},
         name : {"Veterans By Name List", NA},
         exit : {NaT, Today},
         movein : {NaT, Today - 89},
         pit : {"Yes", NA},
         funding : {"VA: Grant Per Diem - Low Demand"},
         dest : {"Permanent Housing Situations"},
         last : {"Yes"}]}

\* several records of one or two clients, before and inside the window
RerunClientRows ==
    {Row(c) : c \in
        [cid : {1, 2},
         ptype : {" Other ", "Other", "Transitional Housing ",
                  "PH - Rapid Re-Housing", "Street Outreach"},
         start : {Today - 200, Today - 30},
         name : {"Veterans By Name List"},
         pit : {"Yes"},
         funding : {"VA: Grant Per Diem - Low Demand"}]}

RerunFrames ==
    {<<r>> : r \in RerunRows}
        \cup UNION {[1 .. n -> RerunClientRows] : n \in 2 .. MaxRows}

InitRerun ==
    \E rows \in RerunFrames, a \in {RootApp, RefactoredApp} :
        Uploaded(Loaded(rows)) /\ app = a

SpecRerun == InitRerun /\ [][NextRerun]_vars

(***************************************************************************)
(* A run on a file that lacks an optional column                           *)
(***************************************************************************)

OptionalColumns ==
    {"name", "funding", "dest", "last", "pit", "prior1", "prior", "los1",
     "los", "times1", "times", "months1", "months", "approx1", "approx"}

\* one record, chronic by its unsuffixed columns
MissingRows ==
    {Row(c) : c \in
        [ptype : {"Street Outreach", "Transitional Housing",
                  "PH - Rapid Re-Housing", "Other"},
         exit : {NaT, Today},
         movein : {NaT, Today - 5},
         pit : {"Yes", NA},
         name : {"Veterans By Name List"},
         funding : {"VA: Grant Per Diem - Low Demand"},
         dest : {"Permanent Housing Situations"},
         last : {"Yes"},
         prior : {"Safe Haven"},
         los : {"One year or longer"},
         approx : {Today - 400}]}

\* the file has every column, or every column but one optional column
InitMissing ==
    \E r \in MissingRows, c \in OptionalColumns \cup {"none"},
       a \in {RootApp, RefactoredApp} :
        /\ Uploaded(WithoutColumns(Loaded(<<r>>), {c}))
        /\ app = a

SpecMissing == InitMissing /\ [][NextRun]_vars

(***************************************************************************)
(* A session: report runs, submissions of the CoC filter form and reruns   *)
(***************************************************************************)

\* filter_data(df, program_coc, local_coc)
filter_data(df, program_coc, local_coc) ==
    LET by_program ==
            IF program_coc # "None" /\ "program_coc" \in Columns(df)
            THEN SelectSeq(df, LAMBDA r : r.program_coc = program_coc)
            ELSE df
    IN  IF local_coc # "None" /\ "local_coc" \in Columns(by_program)
        THEN SelectSeq(by_program, LAMBDA r : r.local_coc = local_coc)
        ELSE by_program

\* the options of a select box: "None", then the values of the column
CocOptions(frame, column) ==
    {"None"} \cup ({r[column] : r \in Range(frame)} \ {NA})

\* the script has reached its end, or stopped at an exception
RunEnded ==
    \/ pc = "error"
    \/ app = RootApp /\ pc = "newly"
    \/ app = RefactoredApp /\ pc = "done"

SubmitCompounding(program_coc, local_coc) ==
    /\ RunEnded
    /\ selected_coc' = [program_coc |-> program_coc, local_coc |-> local_coc]
    /\ df_filtered' = filter_data(df_filtered, program_coc, local_coc)
    /\ processed' = NoFrames
    /\ client_episodes' = <<>>
    /\ newly_identified' = NoNewly
    /\ chronic_metrics' = NoMetrics
    /\ chronic_flag' = <<>>
    /\ pc' = "loaded"
    /\ UNCHANGED <<table, display_df, previous, original_df, app,
                   enrollments, episodes, date_of_identification>>

\* "Apply Filters" with the two selections: the script runs again and puts
\* filter_data(original_df, ...) in st.session_state.df_filtered
Submit(program_coc, local_coc) ==
    /\ RunEnded
    /\ selected_coc' = [program_coc |-> program_coc, local_coc |-> local_coc]
    /\ df_filtered' = filter_data(original_df, program_coc, local_coc)
    /\ processed' = NoFrames
    /\ client_episodes' = <<>>
    /\ newly_identified' = NoNewly
    /\ chronic_metrics' = NoMetrics
    /\ chronic_flag' = <<>>
    /\ pc' = "loaded"
    /\ UNCHANGED <<table, display_df, previous, original_df, app,
                   enrollments, episodes, date_of_identification>>

SubmitFilter ==
    \E program_coc \in CocOptions(original_df, "program_coc"),
       local_coc \in CocOptions(original_df, "local_coc") :
        Submit(program_coc, local_coc)

\* the script runs again without a submission
PlainRerun ==
    /\ RunEnded
    /\ processed' = NoFrames
    /\ client_episodes' = <<>>
    /\ newly_identified' = NoNewly
    /\ chronic_metrics' = NoMetrics
    /\ chronic_flag' = <<>>
    /\ pc' = "loaded"
    /\ UNCHANGED <<selected_coc, table, display_df, previous, original_df,
                   df_filtered, app, enrollments, episodes,
                   date_of_identification>>

NextSession == NextRun \/ SubmitFilter \/ PlainRerun

\* a chronic veteran's record per CoC pair: street outreach begun inside the
\* window, or an unstripped "Other" record begun before it
SessionRows ==
    {Row(c @@ k) :
        c \in [program_coc : {"CA-600", "CA-601", NA},
               local_coc : {"North", "South"},
               pit : {"Yes"},
               name : {"Veterans By Name List"}],
        k \in {[ptype |-> "Street Outreach", start |-> Today - 30],
               [ptype |-> " Other ", start |-> Today - 100]}}

\* one client per record
SessionClients(rows) == [i \in 1 .. Len(rows) |-> [rows[i] EXCEPT !.cid = i]]

InitSession ==
    \E n \in 1 .. MaxRows :
        \E rows \in [1 .. n -> SessionRows], a \in {RootApp, RefactoredApp} :
            /\ Uploaded(Loaded(SessionClients(rows)))
            /\ app = a

SpecSession == InitSession /\ [][NextSession]_vars

(***************************************************************************)
(* process_data on one client's records with dates in any order            *)
(***************************************************************************)

\* PH records that start long before the window, inside it or after its
\* end, with exits and move-ins before, inside and after the enrollment
TimingRows ==
    {Row(c) : c \in
        [ptype : {"PH - Rapid Re-Housing"},
         start : {Today - 200, Today - 5, Today + 1},
         exit : {NaT, Today - 100, Today - 89, Today - 10, Today - 3},
         movein : {NaT, Today - 10, Today - 4},
         dest : {"Permanent Housing Situations"},
         last : {"Yes"}]}

InitTiming ==
    \E n \in 1 .. MaxRows :
        \E rows \in [1 .. n -> TimingRows] :
            Uploaded(Loaded(rows)) /\ app = RootApp

SpecTiming == InitTiming /\ [][ProcessData]_vars

(***************************************************************************)
(* The per-client step of process_data, on one client's group             *)
(***************************************************************************)

MaxEnrollments == 3

EpStarts == {0, 1, 3, 4, 47, 92, 122}

EpExits == {NaT, 2, 3, 50, 100}

\* group.sort_values("Project Start Date"): rows in ascending start order,
\* rows with equal start dates in any order
IsSortedByStart(s) == \A i \in 1 .. Len(s) - 1 : s[i].start <= s[i + 1].start

SortedStarts(n) == {s \in [1 .. n -> [start : EpStarts]] : IsSortedByStart(s)}

\* the group's rows, labelled by position as in df_doi
EpGroup(st, ex) ==
    [i \in DOMAIN st |-> [idx |-> i, start |-> st[i].start, exit |-> ex[i]]]

InitEpisodes ==
    /\ \E n \in 1 .. MaxEnrollments :
           \E st \in SortedStarts(n) :
               \E ex \in [1 .. n -> EpExits] : enrollments = EpGroup(st, ex)
    /\ episodes = <<>>
    /\ date_of_identification = NaT
    /\ pc = "group"
    /\ original_df = <<>>
    /\ df_filtered = <<>>
    /\ processed = NoFrames
    /\ client_episodes = <<>>
    /\ newly_identified = NoNewly
    /\ chronic_metrics = NoMetrics
    /\ chronic_flag = <<>>
    /\ table = <<>>
    /\ display_df = <<>>
    /\ previous = NoRun
    /\ selected_coc = NoSelection
    /\ app = RootApp

\* episodes = merge_enrollments(group_sorted)
MergeEnrollments ==
    /\ pc = "group"
    /\ episodes' = merge_enrollments(enrollments)
    /\ pc' = "merged"
    /\ UNCHANGED <<selected_coc, table, display_df, previous,
                   enrollments, date_of_identification, original_df,
                   df_filtered, processed, client_episodes, newly_identified,
                   chronic_metrics, chronic_flag, app>>

\* the walk over episodes that leaves date_of_identification
IdentifyDate ==
    /\ pc = "merged"
    /\ date_of_identification' = DateOfIdentification(episodes)
    /\ pc' = "identified"
    /\ UNCHANGED <<selected_coc, table, display_df, previous,
                   enrollments, episodes, original_df, df_filtered, processed,
                   client_episodes, newly_identified, chronic_metrics,
                   chronic_flag, app>>

NextEpisodes == MergeEnrollments \/ IdentifyDate

SpecEpisodes == InitEpisodes /\ [][NextEpisodes]_vars

(***************************************************************************)
(* Episode construction and Date of Identification on one client's group  *)
(***************************************************************************)

\* the episodes that hold row i
EpisodesHolding(eps, i) == {k \in 1 .. Len(eps) : i \in Range(eps[k].row_ids)}

EpisodeOf(eps, i) == CHOOSE k \in 1 .. Len(eps) : i \in Range(eps[k].row_ids)

\* the end of the episode that row i - 1 is in, as it stood before row i
RunningEnd(enr, eps, i) ==
    SetMax({ExitOrFuture(enr[j].exit) :
              j \in {m \in 1 .. i - 1 : EpisodeOf(eps, m) = EpisodeOf(eps, i - 1)}})

ResetPoints(eps) ==
    {k \in 2 .. Len(eps) : eps[k].episode_start - eps[k - 1].episode_end >= 90}

\* C3: the Date of Identification is the start of the latest episode that
\* follows a gap of >= 90 days, or the first episode's start without one.
C3_DateOfIdentification ==
    pc = "identified" =>
        date_of_identification =
            IF ResetPoints(episodes) = {}
            THEN episodes[1].episode_start
            ELSE episodes[SetMax(ResetPoints(episodes))].episode_start

\* reset at the second episode (gap of exactly 90), kept at the third
C3_Witness ==
    /\ pc = "identified"
    /\ Len(episodes) = 3
    /\ episodes[2].episode_start - episodes[1].episode_end = 90
    /\ episodes[3].episode_start - episodes[2].episode_end \in 2 .. 89
    /\ date_of_identification = episodes[2].episode_start
    /\ date_of_identification # episodes[1].episode_start

\* C4: two enrollments 45 days apart make one episode; 120 days apart they
\* make two episodes with two distinct Dates of Identification.
C4_GapOf45Merges ==
    (/\ pc = "identified"
     /\ Len(enrollments) = 2
     /\ enrollments[1].exit # NaT) =>
        LET gap == enrollments[2].start - enrollments[1].exit IN
        /\ gap = 45 => Len(episodes) = 1
        /\ gap = 120 =>
              /\ Len(episodes) = 2
              /\ date_of_identification = episodes[2].episode_start
              /\ episodes[2].episode_start # episodes[1].episode_start

(***************************************************************************)
(* Served and PH placement, row by row                                     *)
(***************************************************************************)

\* the record is in the active veteran subset: active in the window, of an
\* allowed project type, veteran status "yes" in any case
InActiveVeteranSubset(r) ==
    /\ (r.exit = NaT \/ r.exit >= Today - 89)
    /\ r.start <= Today
    /\ r.ptype \in allowed_project_types
    /\ r.vet \in {"Yes", "yes", "YES"}

DateInWindow(d) == d # NaT /\ Today - 89 <= d /\ d <= Today

IsGPD(r) ==
    r.funding \in { "VA: Grant Per Diem - Low Demand",
                    "VA: Grant Per Diem - Hospital to Housing",
                    "VA: Grant Per Diem - Clinical Treatment",
                    "VA: Grant Per Diem - Service Intensive Transitional Housing" }

OtherOffList(r) == r.ptype = "Other" /\ r.name # "Veterans By Name List"

\* the PH-placement condition as the claim states it
PlacedAsStated(r) ==
    /\ \/ (r.ptype \in PHPrefixed /\ DateInWindow(r.movein))
       \/ /\ r.last \in {"Yes", "yes", " Yes ", "YES"}
          /\ r.dest = "Permanent Housing Situations"
          /\ DateInWindow(r.exit)
    /\ ~OtherOffList(r)

\* the served condition as the claim states it
ServedAsStated(r) ==
    /\ \/ r.ptype \notin PHPrefixed
       \/ r.movein = NaT
       \/ r.movein >= Today
    /\ ~OtherOffList(r)

\* the rows of the dataset as the engine reads them, project types trimmed
DatasetRows == Range(StripProjectType(df_filtered))

\* calculate_chronic_metrics has returned
ChronicComputed == pc \in {"chronic", "done"}

\* C8: a record of the active veteran subset is PH-placed iff (PH move-in
\* inside the window, or last-enrollment exit to a permanent housing
\* situation inside the window) and it passes the Other/VBNL guard; the
\* exclusion drops exactly the Transitional Housing records with a GPD
\* funding source, so never a record without a funding source.
C8_PlacementFilter ==
    pc # "loaded" =>
        \A r \in DatasetRows :
            InActiveVeteranSubset(r) =>
                /\ r.idx \in Labels(processed.measure1_df) <=> PlacedAsStated(r)
                /\ r.idx \in Labels(processed.filtered_veterans_df) <=>
                      (PlacedAsStated(r)
                          /\ ~(r.ptype = "Transitional Housing" /\ IsGPD(r)))
                /\ (r.funding = NA /\ r.idx \in Labels(processed.measure1_df))
                      => r.idx \in Labels(processed.filtered_veterans_df)

\* a GPD-funded Transitional Housing exit to permanent housing: placed, and
\* dropped by the exclusion
C8_Witness ==
    /\ pc = "processed"
    /\ Len(df_filtered) = 1
    /\ df_filtered[1].ptype = "Transitional Housing"
    /\ IsGPD(df_filtered[1])
    /\ df_filtered[1].movein = NaT
    /\ Labels(processed.measure1_df) = {1}
    /\ Labels(processed.filtered_veterans_df) = {}

AllResultFrames ==
    { processed.veterans_served_df, processed.measure1_df,
      processed.filtered_veterans_df, chronic_metrics.A1.df,
      chronic_metrics.A2.df, chronic_metrics.A3.df, chronic_metrics.A4.df }

\* C10: a record of project type "Other" whose Name is not "Veterans By Name
\* List" is in none of Served, PH-placed (both), A1-A4; a client with only
\* such records is counted in none of them.
C10_OtherOffListExcluded ==
    ChronicComputed =>
        /\ \A r \in DatasetRows :
              OtherOffList(r) => \A f \in AllResultFrames : r.idx \notin Labels(f)
        /\ \A c \in {r.cid : r \in DatasetRows} :
              (\A r \in DatasetRows : r.cid = c => OtherOffList(r)) =>
                  \A f \in AllResultFrames : c \notin {q.cid : q \in Range(f)}
        /\ (\A r \in DatasetRows : OtherOffList(r)) =>
              /\ processed.total_veterans_served = 0
              /\ processed.veterans_ph_placement_count = 0
              /\ processed.filtered_veterans_count = 0
              /\ \A m \in {"A1", "A2", "A3", "A4"} : chronic_metrics[m].count = 0

\* an active chronic veteran's "Other" record off the list, exited to
\* permanent housing inside the window, is in no result
C10_Witness ==
    /\ pc = "chronic"
    /\ Len(df_filtered) = 1
    /\ OtherOffList(df_filtered[1])
    /\ InActiveVeteranSubset(df_filtered[1])
    /\ df_filtered[1].pit = "Yes"
    /\ df_filtered[1].last = "Yes"
    /\ df_filtered[1].dest = "Permanent Housing Situations"
    /\ df_filtered[1].exit = Today
    /\ \A f \in AllResultFrames : f = <<>>

(***************************************************************************)
(* Claims about the episodes and the housing dates of process_data         *)
(***************************************************************************)

RowsOfClient(frame, c) == {r \in Range(frame) : r.cid = c}

HeldRows(eps) == UNION {Range(eps[k].row_ids) : k \in 1 .. Len(eps)}

\* C2: the episodes of a client are strictly ordered and apart (each starts
\* more than one day after the previous one ends), and they are built from
\* every enrollment of the client in the processed dataset, whatever its
\* project type and whether or not it lies in the reporting window.
C2_EpisodesOrderedFromAllEnrollments ==
    pc = "processed" =>
        \A c \in DOMAIN client_episodes :
            LET eps    == client_episodes[c]
                df_doi == processed.df_doi
            IN  /\ \A k \in 1 .. Len(eps) - 1 :
                       eps[k + 1].episode_start > eps[k].episode_end + 1
                /\ HeldRows(eps) = {i \in 1 .. Len(df_doi) : df_doi[i].cid = c}
                /\ {df_doi[i].eid : i \in HeldRows(eps)}
                       = {r.eid : r \in RowsOfClient(df_filtered, c)}

\* two episodes, one of them from an enrollment of a project type that is
\* not allowed and that ended before the reporting window
C2_Witness ==
    /\ pc = "processed"
    /\ \E c \in DOMAIN client_episodes :
           /\ Len(client_episodes[c]) = 2
           /\ \E r \in RowsOfClient(df_filtered, c) :
                  /\ r.ptype \notin allowed_project_types
                  /\ r.exit # NaT
                  /\ r.exit < Today - 89

HousingEvents(c) ==
    LET mine == {r \in RowsOfClient(df_filtered, c) :
                    r.ptype \in allowed_project_types}
    IN  {r.exit : r \in {q \in mine : DateInWindow(q.exit)}}
            \cup {r.movein : r \in {q \in mine : DateInWindow(q.movein)}}

\* a closed enrollment outside PH without a move-in, and an open PH
\* enrollment that starts the day after it ends and has a move-in in the
\* window
TouchingPair(c, a, b) ==
    /\ RowsOfClient(df_filtered, c) = {a, b}
    /\ a.exit # NaT
    /\ a.start <= a.exit
    /\ a.movein = NaT
    /\ ~StartsWithPH(a.ptype)
    /\ b.start = a.exit + 1
    /\ b.exit = NaT
    /\ StartsWithPH(b.ptype)
    /\ b.ptype \in allowed_project_types
    /\ DateInWindow(b.movein)
    /\ b.movein >= b.start

C7_ExclusionOnlyRemoves ==
    pc # "loaded" =>
        /\ Labels(processed.filtered_veterans_df)
               \subseteq Labels(processed.measure1_df)
        /\ \A i \in 1 .. Len(processed.filtered_veterans_df) :
               \E j \in 1 .. Len(processed.measure1_df) :
                   processed.measure1_df[j] = processed.filtered_veterans_df[i]
        /\ processed.filtered_veterans_count
               <= processed.veterans_ph_placement_count

\* the exclusion takes a client away: two clients placed, one of them only
\* by an exit from GPD transitional housing
C7_Witness ==
    /\ pc = "processed"
    /\ processed.veterans_ph_placement_count = 2
    /\ processed.filtered_veterans_count = 1

(***************************************************************************)
(* Claims about calculate_newly_identified                                 *)
(***************************************************************************)

\* the client's rows that start in the window on an allowed project type
RowsInPeriod(c) ==
    {r \in RowsOfClient(df_filtered, c) :
        /\ DateInWindow(r.start)
        /\ r.ptype \in allowed_project_types}

EarliestInPeriod(c) ==
    CHOOSE d \in {r.start : r \in RowsInPeriod(c)} :
        \A r \in RowsInPeriod(c) : d <= r.start

EffectiveEnd(r) == IF r.exit = NaT THEN FUTURE_DATE ELSE r.exit

NewlyAsStated(c) ==
    LET earlier == {r \in RowsOfClient(original_df, c) :
                        r.start < EarliestInPeriod(c)}
    IN  \/ ~ \E r \in earlier : r.ptype \in allowed_project_types
        \/ ~ \E r \in earlier : EffectiveEnd(r) >= EarliestInPeriod(c) - 90

C11_ResultsWithinAllowedActiveSubset ==
    ChronicComputed =>
        \A f \in AllResultFrames :
            \A r \in Range(f) :
                /\ (r.exit = NaT \/ r.exit >= Today - 89)
                /\ r.start <= Today
                /\ r.ptype \in allowed_project_types

\* C12: every row of Served, PH-placed (both), A1, A2, A3 and A4 is the
\* record of a veteran: its Veteran Status reads "yes" in any letter case.
C12_ResultsHoldVeteransOnly ==
    ChronicComputed =>
        \A f \in AllResultFrames :
            \A r \in Range(f) : r.vet \in {"Yes", "yes", "YES"}

(***************************************************************************)
(* Claims about is_chronically_homeless and fallback_column                *)
(***************************************************************************)

\* the value of a field: the ".1" column unless it is null or empty
ResolvedText(primary, backup) ==
    IF primary = NA \/ primary = "" THEN backup ELSE primary

ResolvedDate(primary, backup) == IF primary = NaT THEN backup ELSE primary

LiterallyHomeless ==
    { "Place not meant for habitation (e.g., a vehicle, an abandoned building, bus/train/subway station/airport or anywhere outside)",
      "Emergency shelter, including hotel or motel paid for with emergency shelter voucher, Host Home shelter",
      "Safe Haven",
      "Transitional housing for homeless persons (including homeless youth)" }

DaysHomeless(r) ==
    (IF r.exit = NaT THEN Today ELSE r.exit) - ResolvedDate(r.approx1, r.approx)

ChronicAsStated(r) ==
    \/ r.pit = "Yes"
    \/ /\ ResolvedText(r.prior1, r.prior) \in LiterallyHomeless
       /\ \/ ResolvedText(r.los1, r.los) = "One year or longer"
          \/ /\ ResolvedDate(r.approx1, r.approx) # NaT
             /\ DaysHomeless(r) > 365
          \/ /\ ResolvedText(r.times1, r.times) = "Four or more times"
             /\ ResolvedText(r.months1, r.months) = "More than 12 Months"

\* C13: a record is chronically homeless iff its PIT flag is "Yes", or its
\* prior living situation is literally homeless and (its length of stay is
\* "One year or longer", or exit (window end when open) minus the start of
\* the homelessness episode is more than 365 days, or it was homeless four
\* or more times and more than 12 months); exactly 365 days is not enough.
C13_ChronicPredicate ==
    pc = "flagged" =>
        \A i \in 1 .. Len(df_filtered) :
            LET r == df_filtered[i]
            IN  /\ chronic_flag[i] <=> ChronicAsStated(r)
                /\ r.pit = "Yes" => chronic_flag[i]
                /\ (/\ r.pit # "Yes"
                    /\ ResolvedText(r.los1, r.los) # "One year or longer"
                    /\ ResolvedText(r.times1, r.times) # "Four or more times"
                    /\ ResolvedDate(r.approx1, r.approx) # NaT
                    /\ DaysHomeless(r) = 365) => ~chronic_flag[i]

\* a literally homeless record whose only ground is a duration of exactly
\* 365 days: not chronic
C13_Witness ==
    /\ pc = "flagged"
    /\ LET r == df_filtered[1]
       IN  /\ r.pit = NA
           /\ r.prior1 = "Safe Haven"
           /\ r.los1 = NA /\ r.los = NA
           /\ r.times1 = NA /\ r.times = NA
           /\ r.exit = NaT
           /\ r.approx1 = Today - 365
           /\ ~chronic_flag[1]

\* the record with each fallback value moved into its primary column
Promoted(r) ==
    [r EXCEPT !.prior1 = ResolvedText(r.prior1, r.prior),
              !.los1 = ResolvedText(r.los1, r.los),
              !.times1 = ResolvedText(r.times1, r.times),
              !.months1 = ResolvedText(r.months1, r.months),
              !.approx1 = ResolvedDate(r.approx1, r.approx)]

\* C14: a chronic input field resolves to its ".1" column unless that is
\* null or the empty string, and then to the unsuffixed column; so a record
\* gets the same chronic result as the record that carries the fallback
\* values in its primary columns.
C14_ShadowColumnResolution ==
    pc = "flagged" =>
        \A i \in 1 .. Len(df_filtered) :
            LET r == df_filtered[i]
            IN  /\ fallback_column(r.prior1, r.prior)
                       = ResolvedText(r.prior1, r.prior)
                /\ fallback_column(r.los1, r.los) = ResolvedText(r.los1, r.los)
                /\ fallback_column(r.times1, r.times)
                       = ResolvedText(r.times1, r.times)
                /\ fallback_column(r.months1, r.months)
                       = ResolvedText(r.months1, r.months)
                /\ chronic_flag[i] <=> is_chronically_homeless(Promoted(r))

\* prior living situation null and length of stay empty in the primary
\* columns, both taken from the fallback columns: chronic
C14_Witness ==
    /\ pc = "flagged"
    /\ LET r == df_filtered[1]
       IN  /\ r.pit = NA
           /\ r.prior1 = NA /\ r.prior = "Safe Haven"
           /\ r.los1 = "" /\ r.los = "One year or longer"
           /\ r.times1 = NA /\ r.times = NA
           /\ r.approx1 = NaT /\ r.approx = NaT
           /\ chronic_flag[1]

(***************************************************************************)
(* Claims about the chronic sub-metrics and the counts                     *)
(***************************************************************************)

\* C15: A2 holds exactly the records of A1 whose PH offer is set and is not
\* "Permanent Housing Not Offered Yet", whose offer date lies in the last 14
\* days of the window (window end - 13 days up to the window end) and whose
\* decision status is "Decision Pending".
C15_OfferPendingInLastTwoWeeks ==
    ChronicComputed =>
        \A r \in Range(df_filtered) :
            r.idx \in Labels(chronic_metrics.A2.df) <=>
                /\ r.idx \in Labels(chronic_metrics.A1.df)
                /\ r.offer # NA
                /\ r.offer # "Permanent Housing Not Offered Yet"
                /\ r.offer_date # NaT
                /\ Today - 13 <= r.offer_date
                /\ r.offer_date <= Today
                /\ r.offer_status = "Decision Pending"

\* the row sets of the count metrics, each with its count
CountedFrames ==
    { <<processed.veterans_served_df, processed.total_veterans_served>>,
      <<processed.measure1_df, processed.veterans_ph_placement_count>>,
      <<processed.filtered_veterans_df, processed.filtered_veterans_count>>,
      <<newly_identified.df, newly_identified.count>>,
      <<newly_identified.th_df, newly_identified.th_count>>,
      <<chronic_metrics.A1.df, chronic_metrics.A1.count>>,
      <<chronic_metrics.A2.df, chronic_metrics.A2.count>>,
      <<chronic_metrics.A3.df, chronic_metrics.A3.count>>,
      <<chronic_metrics.A4.df, chronic_metrics.A4.count>> }

\* C16: every count metric is the number of distinct client ids of its row
\* set, so a client with several qualifying rows counts once, and no count
\* exceeds the number of distinct clients of the input.
C16_CountsAreDistinctClients ==
    ChronicComputed =>
        \A m \in CountedFrames :
            /\ m[2] = Cardinality({r.cid : r \in Range(m[1])})
            /\ m[2] <= Cardinality({r.cid : r \in Range(df_filtered)})

\* one client with two records in Served, newly identified and A1 each,
\* counted once in each
C16_Witness ==
    /\ pc = "done"
    /\ Len(processed.veterans_served_df) = 2
    /\ processed.total_veterans_served = 1
    /\ Len(newly_identified.df) = 2
    /\ newly_identified.count = 1
    /\ Len(chronic_metrics.A1.df) = 2
    /\ chronic_metrics.A1.count = 1

(***************************************************************************)
(* Claims about the deduplication of the displayed frames                  *)
(***************************************************************************)

\* the cells a row is identified by: Client ID and Enrollment ID when the
\* frame has both, else Client ID
DedupKey(r) ==
    IF "eid" \in DOMAIN r THEN <<r.cid, r.eid>> ELSE <<r.cid>>

FirstWith(df, k) ==
    CHOOSE i \in 1 .. Len(df) :
        /\ DedupKey(df[i]) = k
        /\ \A j \in 1 .. i - 1 : DedupKey(df[j]) # k

\* C17: the deduplicated frame holds, for every distinct (Client ID,
\* Enrollment ID) pair of the frame - every distinct Client ID when the
\* frame has no Enrollment ID - exactly one row, the first one of the
\* frame with it; deduplicating the result again changes nothing.
C17_DisplayDeduplication ==
    /\ pc \in {"deduplicated", "again"} =>
           LET keys == {DedupKey(table[i]) : i \in 1 .. Len(table)}
           IN  /\ Len(display_df) = Cardinality(keys)
               /\ \A k \in keys :
                      \E j \in 1 .. Len(display_df) :
                          /\ display_df[j] = table[FirstWith(table, k)]
                          /\ \A h \in 1 .. Len(display_df) :
                                 DedupKey(display_df[h]) = k => h = j
    /\ pc = "again" => display_df = table

\* three rows, the third with the Client ID and Enrollment ID of the
\* first but another value: the first two are kept
C17_Witness ==
    /\ pc = "deduplicated"
    /\ Len(table) = 3
    /\ "eid" \in DOMAIN table[1]
    /\ DedupKey(table[3]) = DedupKey(table[1])
    /\ DedupKey(table[2]) # DedupKey(table[1])
    /\ table[3] # table[1]
    /\ display_df = <<table[1], table[2]>>

(***************************************************************************)
(* Claims about running the report again                                   *)
(***************************************************************************)

C19_RunLeavesInputUnchanged ==
    [][(pc = "loaded" \/ pc = "processed") =>
           (df_filtered' = df_filtered /\ original_df' = original_df)]_vars

(***************************************************************************)
(* Claims about files that lack an optional column                         *)
(***************************************************************************)

\* the frame with each column it lacks present and null in every row
WithNullColumns(frame) == [i \in 1 .. Len(frame) |-> frame[i] @@ BlankRow]

\* C20: a run on a file that lacks an optional column completes without
\* error, and its counts and row sets are those of the run on the same file
\* with the column present and null in every row.
C20_MissingOptionalColumn ==
    /\ pc # "error"
    /\ pc \in {"processed", "newly", "chronic", "done"} =>
           LET full == process_data(StripProjectType(WithNullColumns(df_filtered)))
           IN  /\ processed.total_veterans_served = full.total_veterans_served
               /\ processed.veterans_ph_placement_count
                      = full.veterans_ph_placement_count
               /\ processed.filtered_veterans_count = full.filtered_veterans_count
               /\ Labels(processed.veterans_served_df)
                      = Labels(full.veterans_served_df)
               /\ Labels(processed.measure1_df) = Labels(full.measure1_df)
               /\ Labels(processed.filtered_veterans_df)
                      = Labels(full.filtered_veterans_df)
    /\ ChronicComputed =>
           LET full == calculate_chronic_metrics(WithNullColumns(df_filtered))
           IN  \A m \in {"A1", "A2", "A3", "A4"} :
                   /\ chronic_metrics[m].count = full[m].count
                   /\ Labels(chronic_metrics[m].df) = Labels(full[m].df)

(***************************************************************************)
(* Claims about the average and median days to housing                     *)
(***************************************************************************)

Completed == pc \in {"processed", "newly", "chronic", "done"}

\* C21: when no client is placed in permanent housing (GPD transitional
\* housing excluded), process_data completes with an empty days-to-housing
\* summary and returns the no-data value, not 0, for both the average and
\* the median days from identification to housing.
C21_EmptySummaryReportsNoData ==
    (Completed /\ processed.filtered_veterans_count = 0) =>
        /\ processed.summary_df = <<>>
        /\ processed.avg_days = NoData
        /\ processed.med_days = NoData
        /\ processed.avg_days # Ratio(0, 1)
        /\ processed.med_days # Ratio(0, 1)

\* a run over served veterans of whom none is placed
C21_Witness ==
    /\ pc = "processed"
    /\ processed.total_veterans_served > 0
    /\ processed.filtered_veterans_count = 0
    /\ processed.avg_days = NoData

(***************************************************************************)
(* Claims about a reporting period without enrollments                     *)
(***************************************************************************)

\* C22: when the reporting-period subset passed to
\* calculate_newly_identified holds no client, the function returns count 0
\* and an empty row set whatever the historical dataset holds, and does not
\* fail.
C22_EmptyPeriodShortCircuits ==
    [][(pc = "processed" /\ ReportingPeriodRows(df_filtered) = <<>>) =>
           (/\ newly_identified'.count = 0
            /\ newly_identified'.df = <<>>
            /\ newly_identified'.columns = {}
            /\ app = RefactoredApp => pc' = "newly")]_vars

\* a served veteran whose only enrollment started before the window
C22_Witness ==
    /\ pc = "newly"
    /\ app = RefactoredApp
    /\ original_df # <<>>
    /\ ReportingPeriodRows(df_filtered) = <<>>
    /\ processed.total_veterans_served = 1
    /\ newly_identified.count = 0

(***************************************************************************)
(* Claims about the CoC filter within a session                            *)
(***************************************************************************)

\* the rows of the frame that match the selection
Restricted(frame, selection) ==
    SelectSeq(frame, LAMBDA r :
        /\ selection.program_coc = "None" \/ r.program_coc = selection.program_coc
        /\ selection.local_coc = "None" \/ r.local_coc = selection.local_coc)

\* the frame a run of the application reads once process_data has run
AsRead(frame) == IF app = RootApp THEN StripProjectType(frame) ELSE frame

\* C23: after any sequence of filter submissions and reruns, the metrics
\* are computed from the uploaded dataset restricted by the last submitted
\* selection alone (the whole dataset when both selections are "None"),
\* and every metric of the run is computed from that restriction.
C23_FilterAppliesToUploadedSnapshot ==
    LET snapshot == Restricted(original_df, selected_coc)
    IN  /\ StripProjectType(df_filtered) = StripProjectType(snapshot)
        /\ selected_coc = NoSelection =>
               Labels(df_filtered) = Labels(original_df)
        /\ Completed =>
               processed = process_data(StripProjectType(snapshot))
        /\ pc \in {"newly", "chronic", "done"} =>
               LET newly == calculate_newly_identified(
                                ReportingPeriodRows(AsRead(snapshot)),
                                original_df)
               IN  /\ newly_identified.count = newly.count
                   /\ newly_identified.df = newly.df
        /\ ChronicComputed =>
               chronic_metrics = calculate_chronic_metrics(snapshot)

\* a completed run on one CoC's record of a two-record dataset whose other
\* record belongs to another CoC
C23_Witness ==
    /\ RunEnded
    /\ pc # "error"
    /\ selected_coc = [program_coc |-> "CA-601", local_coc |-> "None"]
    /\ Len(original_df) = 2
    /\ Len(df_filtered) = 1
    /\ \E r \in Range(original_df) : r.program_coc = "CA-600"
    /\ processed.total_veterans_served = 1

(***************************************************************************)
(* Claims taken from the metric definitions shown with the results         *)
(***************************************************************************)

\* the client's exits to permanent housing inside the window
ExitsToPermanentHousing(c) ==
    {r.exit : r \in {q \in RowsOfClient(df_filtered, c) :
        /\ DateInWindow(q.exit)
        /\ q.dest = "Permanent Housing Situations"}}

\* the client's move-ins inside the window
MoveInsInWindow(c) ==
    {r.movein : r \in {q \in RowsOfClient(df_filtered, c) :
        DateInWindow(q.movein)}}

\* C24: an exit date is a candidate for the Last Housing Event only when it
\* is an exit to a permanent housing destination inside the window: Last
\* Exit is such an exit, and a Last Housing Event that is not a move-in of
\* the client is such an exit.
C24_ExitCandidateIsExitToPermanentHousing ==
    pc = "processed" =>
        \A i \in 1 .. Len(processed.summary_df) :
            LET s == processed.summary_df[i]
            IN  /\ s.last_exit # NaT =>
                       s.last_exit \in ExitsToPermanentHousing(s.cid)
                /\ s.lhe \in MoveInsInWindow(s.cid)
                                 \cup ExitsToPermanentHousing(s.cid)

\* C25: a client with enrollments in the reporting period, each of whose
\* earlier enrollments exited at least 90 days before the client's earliest
\* start in the period (exactly 90 days included), is newly identified.
C25_GapOfNinetyDaysIsNewlyIdentified ==
    pc = "newly" =>
        \A c \in {r.cid : r \in Range(df_filtered)} :
            (/\ RowsInPeriod(c) # {}
             /\ \A r \in RowsOfClient(original_df, c) :
                    r.start < EarliestInPeriod(c) =>
                        (r.exit # NaT /\ r.exit <= EarliestInPeriod(c) - 90))
                => c \in {r.cid : r \in Range(newly_identified.df)}

\* the documented rule, in one pass over the enrollments sorted by start:
\* the next enrollment joins the running episode when it starts less than
\* 90 days after the running episode end, else it opens a new episode; the
\* result is the start of the last episode
RECURSIVE SinglePassFrom(_, _, _, _)
SinglePassFrom(enr, i, episode_start, running_end) ==
    IF i > Len(enr)
    THEN episode_start
    ELSE LET start_i == enr[i].start
             end_i   == IF enr[i].exit = NaT THEN FUTURE_DATE ELSE enr[i].exit
         IN  IF start_i - running_end < 90
             THEN SinglePassFrom(enr, i + 1, episode_start,
                      IF end_i > running_end THEN end_i ELSE running_end)
             ELSE SinglePassFrom(enr, i + 1, start_i, end_i)

DocumentedDateOfIdentification(enr) ==
    SinglePassFrom(enr, 2, enr[1].start,
        IF enr[1].exit = NaT THEN FUTURE_DATE ELSE enr[1].exit)

WellFormed(enr) ==
    \A i \in 1 .. Len(enr) : enr[i].exit = NaT \/ enr[i].exit >= enr[i].start

\* C26: for a client whose enrollments all exit on or after their start,
\* the Date of Identification of the code (episodes merged at one day, then
\* a reset at every gap of 90 days or more) is the start of the last
\* episode of the documented single pass that merges at gaps under 90 days.
C26_DateOfIdentificationMatchesSinglePass ==
    (pc = "identified" /\ WellFormed(enrollments)) =>
        date_of_identification = DocumentedDateOfIdentification(enrollments)

\* three episodes of the code: the second 90 days after the first, the
\* third between 2 and 89 days after the second; the single pass has two
C26_Witness ==
    /\ pc = "identified"
    /\ WellFormed(enrollments)
    /\ Len(enrollments) = 3
    /\ Len(episodes) = 3
    /\ enrollments[2].start - enrollments[1].exit = 90
    /\ enrollments[3].start - enrollments[2].exit \in 2 .. 89
    /\ date_of_identification = enrollments[2].start
    /\ DocumentedDateOfIdentification(enrollments) = enrollments[2].start

(***************************************************************************)
(* Claims about the days-to-housing population                             *)
(***************************************************************************)

\* C27: the days-to-housing summary holds exactly one row for each client
\* counted as placed in permanent housing (GPD transitional housing
\* excluded); each row has a Last Housing Event inside the window and a
\* Date of Identification; the rows of one client in the detailed table
\* agree on both and on the day count; so the average and the median are
\* taken over as many values as the count of placed clients.
C27_SummaryHoldsEachPlacedClientOnce ==
    pc = "processed" =>
        LET placed  == {r.cid : r \in Range(processed.filtered_veterans_df)}
            summary == processed.summary_df
        IN  /\ {s.cid : s \in Range(summary)} = placed
            /\ Len(summary) = Cardinality(placed)
            /\ Len(summary) = processed.filtered_veterans_count
            /\ \A s \in Range(summary) :
                   /\ DateInWindow(s.lhe)
                   /\ s.doi # NaT
                   /\ s.days # NaN
            /\ \A a, b \in Range(processed.df_doi) :
                   a.cid = b.cid =>
                       /\ a.doi = b.doi
                       /\ a.lhe = b.lhe
                       /\ a.days = b.days
            /\ Len(Valid(DaysColumn(summary)))
                   = processed.filtered_veterans_count
            /\ processed.filtered_veterans_count > 0 =>
                   processed.avg_days.den = processed.filtered_veterans_count

\* one placed client with two enrollments in the detailed table
C27_Witness ==
    /\ pc = "processed"
    /\ Len(processed.df_doi) = 2
    /\ Len(processed.summary_df) = 1
    /\ processed.filtered_veterans_count = 1
    /\ processed.avg_days.den = 1

\* the client's records have start <= exit, start <= move-in <= exit, and
\* no start after the end of the window
WellFormedClient(c) ==
    \A r \in RowsOfClient(df_filtered, c) :
        /\ r.exit = NaT \/ r.start <= r.exit
        /\ r.movein = NaT \/
               (r.start <= r.movein /\ (r.exit = NaT \/ r.movein <= r.exit))
        /\ r.start <= Today

\* C28: for a client with well-formed records the days from identification
\* to housing are not negative: the Date of Identification is not later
\* than the Last Housing Event.
C28_DaysToHousingNotNegative ==
    pc = "processed" =>
        \A s \in Range(processed.summary_df) :
            WellFormedClient(s.cid) =>
                /\ s.days # NaN
                /\ s.days >= 0
                /\ s.doi <= s.lhe

\* identified anew 5 days before today, more than 90 days after the earlier
\* enrollment ended, and exited to permanent housing two days later
C28_Witness ==
    /\ pc = "processed"
    /\ Len(processed.summary_df) = 1
    /\ WellFormedClient(processed.summary_df[1].cid)
    /\ Len(processed.df_doi) = 2
    /\ processed.summary_df[1].doi = Today - 5
    /\ processed.summary_df[1].lhe = Today - 3
    /\ processed.summary_df[1].days = 2

(***************************************************************************)
(* Claims about the chronic metrics as subsets of A1                       *)
(***************************************************************************)

\* C29: every row of A2, A3 and A4 is a row of A1, so none of the three
\* counts exceeds the A1 count; A3 and A4 share no row.
C29_ChronicSubsetsOfA1 ==
    ChronicComputed =>
        /\ \A m \in {"A2", "A3", "A4"} :
               /\ Labels(chronic_metrics[m].df) \subseteq Labels(chronic_metrics.A1.df)
               /\ chronic_metrics[m].count <= chronic_metrics.A1.count
        /\ Labels(chronic_metrics.A3.df) \cap Labels(chronic_metrics.A4.df) = {}

(***************************************************************************)
(* Claims about a whole run without enrollments in the reporting period    *)
(***************************************************************************)

\* no record of an allowed project type starts inside the window
NoEnrollmentInPeriod ==
    ReportingPeriodRows(StripProjectType(df_filtered)) = <<>>

\* C30: when no enrollment of an allowed project type starts inside the
\* reporting window, the run of main does not end in an error, and at its
\* end the newly identified count and the count of newly identified
\* veterans entering GPD transitional housing are both 0.
C30_RunWithoutEnrollmentInPeriodCompletes ==
    NoEnrollmentInPeriod =>
        /\ pc # "error"
        /\ RunEnded => (newly_identified.count = 0 /\ newly_identified.th_count = 0)

================================================================================
